---- MODULE Spec2Model ----
(***************************************************************************)
(* Admin content pipeline of the portfolio site: the session gate shared   *)
(* by every admin endpoint, the upload / reorder / delete handlers in      *)
(* their local (dev) and remote (GitHub) modes, and the two ways the code  *)
(* publishes to the branch: one contents-API call per file, or one         *)
(* tree-based commit (get-ref, get-commit, create-blobs, create-tree,      *)
(* create-commit, update-ref).                                             *)
(*                                                                         *)
(* One request is followed from arrival to response.  Every awaited call   *)
(* of the handlers (filesystem, GitHub API, build hook) may fail; the      *)
(* calls that were made are recorded in `log`, in order.                   *)
(*                                                                         *)
(* Spec follows one request alone.  SpecRace follows a request in remote   *)
(* mode together with the publish of a second, simultaneous request.       *)
(***************************************************************************)
EXTENDS Integers, Sequences, FiniteSets, TLC

(***************************************************************************)
(* Bounds of the model.                                                    *)
(***************************************************************************)
\* longest upload batch
MaxFiles == 2
\* longest reorder item list
MaxItems == 3

\* the images of a gallery, the calls of openGallery on a page, and the
\* entries of the session history
MaxImages == 3

MaxOpens == 2

MaxHistory == 5

(***************************************************************************)
(* File names are sequences of tokens.  "-" is a token of its own, a token *)
(* that starts with "." is an extension, a digit is a one-character token. *)
(***************************************************************************)
ImageExts == {".jpg", ".jpeg", ".png"}

ExtTokens == ImageExts \cup {".gif", ".mp4", ".md", ".webp"}

DigitTok(d) ==
  CASE d = 0 -> "0" [] d = 1 -> "1" [] d = 2 -> "2" [] d = 3 -> "3"
    [] d = 4 -> "4" [] d = 5 -> "5" [] d = 6 -> "6" [] d = 7 -> "7"
    [] d = 8 -> "8" [] OTHER -> "9"

RECURSIVE Digits(_)
\* String(n): the decimal digits of n >= 0
Digits(n) == IF n < 10 THEN <<DigitTok(n)>>
             ELSE Append(Digits(n \div 10), DigitTok(n % 10))

RECURSIVE PadStart(_, _)
\* s.padStart(w, '0')
PadStart(s, w) == IF Len(s) >= w THEN s ELSE PadStart(<<"0">> \o s, w)

\* String(index + 1).padStart(4, '0')
OrderPrefix(i) == PadStart(Digits(i), 4)

\* s.indexOf('-'), 0-based, -1 when there is none
IndexOfDash(s) ==
  IF \E k \in 1..Len(s) : s[k] = "-"
  THEN (CHOOSE k \in 1..Len(s) : s[k] = "-" /\ \A j \in 1..(k-1) : s[j] # "-") - 1
  ELSE -1

\* s.substring(from), 0-based
Substring(s, from) == SubSeq(s, from + 1, Len(s))

\* name.replace(/\.[^/.]+$/, ''): drop the last extension
StripExt(s) ==
  IF Len(s) > 0 /\ s[Len(s)] \in ExtTokens THEN SubSeq(s, 1, Len(s) - 1) ELSE s

\* name.replace(/\.(jpg|jpeg|png)$/i, repl)
ReplaceImageExt(s, repl) ==
  IF Len(s) > 0 /\ s[Len(s)] \in ImageExts THEN SubSeq(s, 1, Len(s) - 1) \o repl ELSE s

Path(dir, file) == [dir |-> dir, file |-> file]

SeqToSet(s) == {s[k] : k \in 1..Len(s)}

\* name.replace(/[^a-z0-9.-]/gi, '_')
UnsafeTokens == {" "}

SafeName(s) == [k \in DOMAIN s |-> IF s[k] \in UnsafeTokens THEN "_" ELSE s[k]]

(***************************************************************************)
(* Directories and the content that is in the repository before the        *)
(* request: two photo items of the portraits category.                     *)
(***************************************************************************)
PhotosDir == <<"public", "uploads", "photos">>

VideosDir == <<"public", "uploads", "videos">>

AstroDir == <<".astro">>

ContentDir(category) == <<"src", "content", category>>

\* the site path /uploads/photos
SitePhotos == <<"uploads", "photos">>

\* `public${filePath}` for a site path such as /uploads/photos/x.webp
PublicPath(p) == Path(<<"public">> \o p.dir, p.file)

NoPath == Path(<<>>, <<>>)

ItemA == <<"0", "0", "0", "1", "-", "a", ".md">>

ItemB == <<"0", "0", "0", "2", "-", "b", ".md">>

\* a second item named a after its prefix, as two uploads of a file of the
\* same name leave behind
ItemC == <<"0", "0", "0", "3", "-", "a", ".md">>

\* an id that names no file
ItemGone == <<"x", ".md">>

AssetA == Path(SitePhotos, <<"a", ".webp">>)

ThumbA == Path(SitePhotos, <<"a", "-", "thumb", ".webp">>)

AssetB == Path(SitePhotos, <<"b", ".webp">>)

ThumbB == Path(SitePhotos, <<"b", "-", "thumb", ".webp">>)

AssetGone == Path(SitePhotos, <<"x", ".webp">>)

InitialTree ==
  { Path(ContentDir("portraits"), ItemA), Path(ContentDir("portraits"), ItemB),
    Path(ContentDir("portraits"), ItemC),
    PublicPath(AssetA), PublicPath(ThumbA), PublicPath(AssetB), PublicPath(ThumbB) }

InitialDirs == { ContentDir("portraits"), PhotosDir }

(***************************************************************************)
(* Deployment: import.meta.env.DEV, whether GITHUB_OWNER / GITHUB_REPO /   *)
(* GITHUB_TOKEN are all set, whether NETLIFY_BUILD_HOOK is set.            *)
(***************************************************************************)
Envs ==
  { [isDev |-> TRUE, creds |-> FALSE, hook |-> FALSE] } \cup
  [isDev : {FALSE}, creds : BOOLEAN, hook : BOOLEAN]

(***************************************************************************)
(* The github_session cookie as the client sends it.  raw is what          *)
(* cookies.get(...)?.value and JSON.parse make of it; auth is the value of *)
(* the authenticated property of a parsed object.                          *)
(***************************************************************************)
AuthValues == {"true", "false", "missing", "null", "str:yes", "str:", "num:1", "num:0"}

Cookies ==
  [raw : {"absent", "empty", "garbage", "json-null"}, auth : {"missing"}] \cup
  [raw : {"object"}, auth : AuthValues]

\* the value the OAuth callback sets: JSON.stringify({authenticated: true,
\* username}); of the cookie's content only what the gate reads is kept
SessionCookie == [raw |-> "object", auth |-> "true"]

\* JavaScript truthiness of a property value
Truthy(v) == v \in {"true", "str:yes", "num:1"}

(***************************************************************************)
(* Requests.                                                               *)
(***************************************************************************)
\* the content collections of the site
Categories == {"portraits", "bits-pieces", "film", "overview"}

SampleFiles ==
  { [name |-> <<"s", ".jpg">>, type |-> "image", corrupt |-> FALSE,
     width |-> 4000, height |-> 3000],
    [name |-> <<"g", " ", ".gif">>, type |-> "image", corrupt |-> FALSE,
     width |-> 2, height |-> 5],
    [name |-> <<"k", ".png">>, type |-> "image", corrupt |-> TRUE,
     width |-> 0, height |-> 0],
    [name |-> <<"v", ".mp4">>, type |-> "video", corrupt |-> FALSE,
     width |-> 0, height |-> 0] }

Batches == UNION { [1..n -> SampleFiles] : n \in 0..MaxFiles }

ItemLists == UNION { [1..n -> {ItemA, ItemB, ItemC, ItemGone}] : n \in 0..MaxItems }

UploadEndpoints == {"upload", "uploadBatch"}

DeleteEndpoints == {"delete", "deleteEach"}

\* the handlers that publish with the tree-based commit helper
TreeEndpoints == {"uploadBatch", "reorder", "delete"}

Endpoints == UploadEndpoints \cup DeleteEndpoints \cup {"reorder", "content"}

BaseRequest ==
  [endpoint |-> "content", cookie |-> [raw |-> "absent", auth |-> "missing"],
   issued |-> FALSE, body |-> "ok", files |-> <<>>, category |-> "portraits", items |-> <<>>,
   id |-> <<>>, filePath |-> NoPath, thumbnailPath |-> NoPath]

Requests ==
  { [BaseRequest EXCEPT !.endpoint = e, !.cookie = c, !.files = f, !.category = cat] :
      e \in UploadEndpoints, c \in Cookies, f \in Batches,
      cat \in {"portraits", "film", "misc"} }
  \cup
  { [BaseRequest EXCEPT !.endpoint = "reorder", !.cookie = c, !.items = it, !.category = cat] :
      c \in Cookies, it \in ItemLists, cat \in {"portraits", ""} }
  \cup
  { [BaseRequest EXCEPT !.endpoint = e, !.cookie = c, !.id = id, !.filePath = fp,
                        !.thumbnailPath = tp] :
      e \in DeleteEndpoints, c \in Cookies, id \in {ItemA, ItemGone, <<>>},
      fp \in {AssetA, AssetGone}, tp \in {NoPath, ThumbA, AssetGone} }
  \cup
  { [BaseRequest EXCEPT !.endpoint = e, !.cookie = c, !.body = "malformed"] :
      e \in Endpoints \ {"content"}, c \in Cookies }
  \cup
  { [BaseRequest EXCEPT !.cookie = c, !.category = cat] :
      c \in Cookies, cat \in {"portraits", ""} }

(***************************************************************************)
(* State.                                                                  *)
(***************************************************************************)
VARIABLES
  env,        \* the deployment
  pc,         \* where the handler is
  req,        \* the request being served
  i,          \* upload: index of the next file of the batch
  clock,      \* Date.now()
  results,    \* upload: the results list
  staged,     \* files collected for the single commit, in order
  stagedDel,  \* paths collected for deletion in the single commit
  fs,         \* files of the local working directory
  data,       \* what each of them holds, named by the path it was written under
  dirs,       \* directories of the local working directory
  commits,    \* remote repository: commit id -> [parent, tree]
  ref,        \* remote repository: the commit the branch points at
  pub,        \* locals of the tree-based commit helper
  response,   \* the HTTP response, status 0 while there is none
  log,        \* the awaited external calls made so far, in order
  other,      \* the publish of a second, simultaneous request
  docs,       \* upload: the metadata documents generated, by file name
  encoded,    \* upload: the image outputs of the transcoder, by storage path
  page        \* the document the gallery script runs in

vars == <<env, pc, req, i, clock, results, staged, stagedDel, fs, data, dirs,
          commits, ref, pub, response, log, other, docs, encoded, page>>

NoPub == [head |-> 0, base |-> {}, tree |-> {}, commit |-> 0]

NoResponse == [status |-> 0, body |-> ""]

\* the helper of the second request has not been called
NoOther == [pc |-> "idle", head |-> 0, commit |-> 0, status |-> 0]

Reply(status, body) == [status |-> status, body |-> body]

Call(op, n) == [op |-> op, n |-> n]

BranchTree == commits[ref].tree

(***************************************************************************)
(* The gallery lightbox (browser side).  page is the document the script   *)
(* runs in: inst holds the closure of every openGallery call (the images'  *)
(* count, currentIndex, and whether its keydown and popstate listeners are *)
(* registered), overlay the #gallery-overlay element ("none", "shown", or  *)
(* "fading" from closeGallery until the fade-out removes it), owner the    *)
(* closure whose buttons the overlay carries, counter the text of          *)
(* #current-index, history the session history and at the current entry.   *)
(***************************************************************************)
\* e.state?.photoIndex === undefined
NoState == 0 - 1

\* a history entry: the photoIndex of its state and the photo parameter of
\* its URL (0: no parameter)
Entry(state, photo) == [photoIndex |-> state, photo |-> photo]

NoPage ==
  [inst |-> <<>>, overlay |-> "none", owner |-> 0, counter |-> 0,
   history |-> <<Entry(NoState, 0)>>, at |-> 1]

Keys == {"Escape", "ArrowRight", " ", "ArrowLeft"}

Buttons == {"gallery-close", "gallery-next", "gallery-prev"}

\* (current + 1) % total
nextIndex(current, total) == (current + 1) % total

\* (current - 1 + total) % total
prevIndex(current, total) == (current - 1 + total) % total

\* counterEl.textContent = String(current + 1), when the element exists
updateCounter(p, current) ==
  IF p.overlay # "none" THEN [p EXCEPT !.counter = current + 1] ELSE p

\* history.pushState({ photoIndex: index }, '', url with photo = index + 1):
\* the entries after the current one are dropped
updateURL(p, index) ==
  [p EXCEPT !.history = Append(SubSeq(@, 1, p.at), Entry(index, index + 1)),
            !.at = @ + 1]

\* the overlay, when there is one, starts to fade out
closeGallery(p) == IF p.overlay # "none" THEN [p EXCEPT !.overlay = "fading"] ELSE p

goToNext(p, k) ==
  LET c == nextIndex(p.inst[k].currentIndex, p.inst[k].total)
  IN  updateURL(updateCounter([p EXCEPT !.inst[k].currentIndex = c], c), c)

goToPrev(p, k) ==
  LET c == prevIndex(p.inst[k].currentIndex, p.inst[k].total)
  IN  updateURL(updateCounter([p EXCEPT !.inst[k].currentIndex = c], c), c)

handlePopState(p, k, state) ==
  IF state # NoState
  THEN updateCounter([p EXCEPT !.inst[k].currentIndex = state], state)
  ELSE closeGallery(p)

\* removeEventListener('popstate'), replaceState({}, '', url without photo),
\* closeGallery()
cleanupClose(p, k) ==
  closeGallery([p EXCEPT !.inst[k].popstate = FALSE,
                         !.history[p.at] = Entry(NoState, 0)])

\* the three ifs of handleKey
handleKey(p, k, key) ==
  CASE key = "Escape" -> cleanupClose(p, k)
    [] key \in {"ArrowRight", " "} -> goToNext(p, k)
    [] key = "ArrowLeft" -> goToPrev(p, k)
    [] OTHER -> p

RECURSIVE DispatchKey(_, _, _)
\* a keydown on the document: the registered listeners from k on run in the
\* order of their registration
DispatchKey(p, k, key) ==
  IF k > Len(p.inst) THEN p
  ELSE DispatchKey(IF p.inst[k].keydown THEN handleKey(p, k, key) ELSE p, k + 1, key)

RECURSIVE DispatchPop(_, _, _)
\* a popstate on the window
DispatchPop(p, k, state) ==
  IF k > Len(p.inst) THEN p
  ELSE DispatchPop(IF p.inst[k].popstate THEN handlePopState(p, k, state) ELSE p,
                   k + 1, state)

\* the variables of the server side
server ==
  <<env, pc, req, i, clock, results, staged, stagedDel, fs, data, dirs,
    commits, ref, pub, response, log, other, docs, encoded>>

\* openGallery(images, startIndex) with n images, no overlay being in the
\* document
OpenGallery ==
  /\ page.overlay = "none"
  /\ Len(page.inst) < MaxOpens
  /\ page.at < MaxHistory
  /\ \E n \in 1..MaxImages : \E startIndex \in 0..(n - 1) :
       page' = updateURL(
                 [page EXCEPT !.inst = Append(@, [total |-> n, currentIndex |-> startIndex,
                                                  keydown |-> TRUE, popstate |-> TRUE]),
                              !.overlay = "shown",
                              !.owner = Len(page.inst) + 1,
                              !.counter = startIndex + 1],
                 startIndex)
  /\ UNCHANGED server

\* the user presses a key
KeyDown ==
  /\ page.inst # <<>>
  /\ page.at + Len(page.inst) <= MaxHistory
  /\ \E key \in Keys : page' = DispatchKey(page, 1, key)
  /\ UNCHANGED server

\* the user clicks a button of the overlay
Click ==
  /\ page.overlay # "none"
  /\ page.at < MaxHistory
  /\ \E b \in Buttons :
       page' = CASE b = "gallery-close" -> cleanupClose(page, page.owner)
                 [] b = "gallery-next" -> goToNext(page, page.owner)
                 [] b = "gallery-prev" -> goToPrev(page, page.owner)
  /\ UNCHANGED server

\* the user goes back or forward by one entry
PopState ==
  /\ \E d \in {0 - 1, 1} :
       /\ page.at + d \in 1..Len(page.history)
       /\ page' = DispatchPop([page EXCEPT !.at = @ + d], 1,
                              page.history[page.at + d].photoIndex)
  /\ UNCHANGED server

\* onComplete of fadeOut: overlay.remove()
FadeOutComplete ==
  /\ page.overlay = "fading"
  /\ page' = [page EXCEPT !.overlay = "none", !.counter = 0]
  /\ UNCHANGED server

Init ==
  /\ env \in Envs
  /\ pc = "idle"
  /\ req = BaseRequest
  /\ i = 1
  /\ clock = 1
  /\ results = <<>>
  /\ staged = <<>>
  /\ stagedDel = {}
  /\ fs = InitialTree
  /\ data = [p \in InitialTree |-> p]
  /\ dirs = InitialDirs
  /\ commits = <<[parent |-> 0, tree |-> InitialTree]>>
  /\ ref = 1
  /\ pub = NoPub
  /\ response = NoResponse
  /\ log = <<>>
  /\ other = NoOther
  /\ docs = <<>>
  /\ encoded = <<>>
  /\ page = NoPage

\* a request arrives.  Its cookie is a value the client made up, or
\* (issued) the value the OAuth callback has set in the browser
Receive ==
  /\ pc = "idle"
  /\ \E r \in Requests, b \in BOOLEAN :
       /\ b => r.cookie = SessionCookie
       /\ req' = [r EXCEPT !.issued = b]
  /\ pc' = "gate"
  /\ UNCHANGED <<page, env, other, docs, encoded, i, clock, results, staged, stagedDel, fs, data, dirs, commits, ref,
                 pub, response, log>>

(***************************************************************************)
(* Session gate, the same text in every admin handler.                     *)
(***************************************************************************)
\* if (!session): undefined and the empty string are falsy
SessionMissing(c) == c.raw \in {"absent", "empty"}

\* JSON.parse(session) throws, or reading .authenticated of null throws
SessionThrows(c) == c.raw \in {"garbage", "json-null"}

\* the gate without its check of the flag
SessionAccepted_NoFlag(c) == ~SessionMissing(c) /\ ~SessionThrows(c)

\* the gate lets the request through
SessionAccepted(c) ==
  /\ ~SessionMissing(c)
  /\ ~SessionThrows(c)
  /\ Truthy(c.auth)

SessionGate ==
  /\ pc = "gate"
  /\ IF SessionAccepted(req.cookie)
     THEN /\ pc' = "body"
          /\ UNCHANGED response
     ELSE /\ pc' = "done"
          /\ response' = Reply(401, "Unauthorized")
  /\ UNCHANGED <<page, env, other, docs, encoded, req, i, clock, results, staged, stagedDel, fs, data, dirs, commits,
                 ref, pub, log>>

(***************************************************************************)
(* Remote repository.                                                      *)
(***************************************************************************)
RECURSIVE PutEach(_, _, _)
\* repos.createOrUpdateFileContents for each path of ps: one commit on the
\* branch head per call
PutEach(cs, r, ps) ==
  IF ps = <<>> THEN [commits |-> cs, ref |-> r]
  ELSE LET c == [parent |-> r, tree |-> cs[r].tree \cup {Head(ps)}]
       IN  PutEach(Append(cs, c), Len(cs) + 1, Tail(ps))

\* the subsequence of s at the positions in keep
Pick(s, keep) ==
  LET F[k \in 0..Len(s)] ==
        IF k = 0 THEN <<>>
        ELSE IF k \in keep THEN Append(F[k-1], s[k]) ELSE F[k-1]
  IN  F[Len(s)]

\* the working directory after its set of files became files: a file that
\* was there holds what it held, a new file holds what was written to it
Held(d, files) == [p \in files |-> IF p \in DOMAIN d THEN d[p] ELSE p]

\* fs.rename(from, to): to holds what from held, replacing a file at to;
\* nothing changes when there is no file at from (the call throws)
Rename(d, from, to) ==
  IF from \notin DOMAIN d THEN d
  ELSE [p \in (DOMAIN d \ {from}) \cup {to} |-> IF p = to THEN d[from] ELSE d[p]]

(***************************************************************************)
(* Upload: names and paths of the files made for one uploaded file.        *)
(***************************************************************************)
IsVideo(f) == f.type = "video"

\* `${timestamp}-${safeName}`
Filename(f, ts) == Digits(ts) \o <<"-">> \o SafeName(f.name)

WebpFilename(f, ts) == ReplaceImageExt(Filename(f, ts), <<".webp">>)

ThumbFilename(f, ts) == ReplaceImageExt(Filename(f, ts), <<"-", "thumb", ".webp">>)

VideoThumbFilename(f, ts) ==
  Digits(ts) \o <<"-">> \o StripExt(SafeName(f.name)) \o <<"-", "thumb", ".jpg">>

MdFilename(f, ts) == Digits(ts) \o <<"-">> \o StripExt(SafeName(f.name)) \o <<".md">>

AssetPath(f, ts) ==
  IF IsVideo(f) THEN Path(VideosDir, Filename(f, ts))
  ELSE Path(PhotosDir, WebpFilename(f, ts))

ThumbPath(f, ts) ==
  IF IsVideo(f) THEN Path(PhotosDir, VideoThumbFilename(f, ts))
  ELSE Path(PhotosDir, ThumbFilename(f, ts))

MdPath(f, ts, category) == Path(ContentDir(category), MdFilename(f, ts))

\* asset, thumbnail, metadata document: the order of the code's lists
UploadPaths(f, ts, category) ==
  <<AssetPath(f, ts), ThumbPath(f, ts), MdPath(f, ts, category)>>

\* let imageWidth = 1920
DefaultWidth == 1920

\* let imageHeight = 1080
DefaultHeight == 1080

\* a document whose title is made from the sanitized name
Markdown_SafeTitle(f, ts) ==
  IF IsVideo(f)
  THEN [title |-> StripExt(SafeName(f.name)),
        video |-> Path(<<"uploads", "videos">>, Filename(f, ts)),
        thumbnail |-> Path(SitePhotos, VideoThumbFilename(f, ts)),
        thumbnailWidth |-> DefaultWidth, thumbnailHeight |-> DefaultHeight,
        order |-> 0]
  ELSE [title |-> StripExt(SafeName(f.name)),
        image |-> Path(SitePhotos, WebpFilename(f, ts)),
        thumbnail |-> Path(SitePhotos, ThumbFilename(f, ts)),
        width |-> IF f.width # 0 THEN f.width ELSE DefaultWidth,
        height |-> IF f.height # 0 THEN f.height ELSE DefaultHeight,
        order |-> 0]

\* the front matter of the metadata document; width and height are those
\* of sharp's metadata(), a missing one replaced by the default
Markdown(f, ts) ==
  IF IsVideo(f)
  THEN [title |-> StripExt(f.name),
        video |-> Path(<<"uploads", "videos">>, Filename(f, ts)),
        thumbnail |-> Path(SitePhotos, VideoThumbFilename(f, ts)),
        thumbnailWidth |-> DefaultWidth, thumbnailHeight |-> DefaultHeight,
        order |-> 0]
  ELSE [title |-> StripExt(f.name),
        image |-> Path(SitePhotos, WebpFilename(f, ts)),
        thumbnail |-> Path(SitePhotos, ThumbFilename(f, ts)),
        width |-> IF f.width # 0 THEN f.width ELSE DefaultWidth,
        height |-> IF f.height # 0 THEN f.height ELSE DefaultHeight,
        order |-> 0]

\* the documents generated so far and the one of file f
AddDoc(d, f, ts) ==
  [k \in DOMAIN d \cup {MdFilename(f, ts)} |->
     IF k = MdFilename(f, ts) THEN Markdown(f, ts) ELSE d[k]]

\* the width of the display version: resize(1920, null, ...)
MaxWidth == 1920

\* resize(800, null, ...) of upload.ts
ThumbWidth == 800

\* resize(400, null, ...) of the batching upload handler
BatchThumbWidth == 400

\* resize(cap, null, { withoutEnlargement: true }): the width of the output
Resize(w, cap) == IF w > cap THEN cap ELSE w

\* sharp(imageBuffer).webp({ quality }): the full-size output, not resized
FullSize(f) == [kind |-> "full", width |-> f.width]

\* the thumbnail output
Thumbnail(f) ==
  [kind |-> "thumb",
   width |-> Resize(f.width, IF req.endpoint = "upload" THEN ThumbWidth
                             ELSE BatchThumbWidth)]

\* e with out stored at path p, replacing what was stored there
PutOutput(e, p, out) == [q \in DOMAIN e \cup {p} |-> IF q = p THEN out ELSE e[q]]

\* the outputs after the full-size output, then the thumbnail, were made
\* for file f
Encode(e, f, ts, full, thumb) ==
  LET e1 == IF full THEN PutOutput(e, AssetPath(f, ts), FullSize(f)) ELSE e
  IN  IF thumb THEN PutOutput(e1, ThumbPath(f, ts), Thumbnail(f)) ELSE e1

\* the file field of a success entry
ResultFile(f, ts) == IF IsVideo(f) THEN Filename(f, ts) ELSE WebpFilename(f, ts)

Success(f, ts) ==
  [success |-> TRUE, file |-> ResultFile(f, ts), content |-> MdFilename(f, ts),
   error |-> ""]

\* the entry pushed by the catch of the batch loop
Failure(f, msg) == [success |-> FALSE, file |-> f.name, content |-> <<>>, error |-> msg]

VideoCategoryError == "Videos can only be uploaded to the Film category"

(***************************************************************************)
(* Upload, local mode: the filesystem steps of processFile in order.  A    *)
(* step is [op, dir, file]; mkdir steps are there only for directories     *)
(* that do not exist.                                                      *)
(***************************************************************************)
Step(op, dir, file) == [op |-> op, dir |-> dir, file |-> file]

MkdirSteps(ds, have) ==
  LET F[k \in 0..Len(ds)] ==
        IF k = 0 THEN <<>>
        ELSE IF ds[k] \in have THEN F[k-1]
             ELSE Append(F[k-1], Step("mkdir", ds[k], <<>>))
  IN  F[Len(ds)]

LocalSteps(f, ts, category, have) ==
  LET asset == AssetPath(f, ts)
      thumb == ThumbPath(f, ts)
      md    == MdPath(f, ts, category)
  IN  MkdirSteps(<<asset.dir, md.dir, AstroDir>>, have) \o
      ( IF IsVideo(f)
        THEN << Step("write", asset.dir, asset.file),
                Step("ffmpeg", thumb.dir, thumb.file),
                Step("write", md.dir, md.file) >>
        ELSE << Step("decode", <<>>, <<>>),
                Step("write", asset.dir, asset.file),
                Step("write", thumb.dir, thumb.file),
                Step("write", md.dir, md.file) >> )

\* the first n steps have succeeded
FilesAfter(files, steps, n) ==
  files \cup { Path(steps[k].dir, steps[k].file) :
                 k \in { j \in 1..n : steps[j].op \in {"write", "ffmpeg"} } }

DirsAfter(ds, steps, n) ==
  ds \cup { steps[k].dir : k \in { j \in 1..n : steps[j].op = "mkdir" } }

\* sharp rejects a corrupt image and nothing else: no decode step among the
\* first n succeeded on a corrupt file, and a decode step fails only on one;
\* every filesystem or ffmpeg step can fail
Possible(f, steps, n) ==
  /\ \A k \in 1..n : steps[k].op = "decode" => ~f.corrupt
  /\ n < Len(steps) /\ steps[n+1].op = "decode" => f.corrupt

DecodeError == "Input buffer contains unsupported image format"

StepError(step) ==
  CASE step.op = "decode" -> DecodeError
    [] step.op = "ffmpeg" -> "ffmpeg exited with code 1"
    [] OTHER -> "EACCES: permission denied"

\* the calls of the first n steps, and of step n+1 when it was tried
StepCalls(steps, n, idx) ==
  [k \in 1..(IF n < Len(steps) THEN n + 1 ELSE n) |-> Call(steps[k].op, idx)]

UploadReadBody ==
  /\ pc = "body"
  /\ req.endpoint \in UploadEndpoints
  /\ log' = Append(log, Call("formData", 0))
  /\ IF req.body = "malformed"
     THEN /\ pc' = "done"
          /\ response' = Reply(500, "Upload failed")
     ELSE IF Len(req.files) = 0
     THEN /\ pc' = "done"
          /\ response' = Reply(400, "No files provided")
     ELSE /\ pc' = "loop"
          /\ UNCHANGED response
  /\ UNCHANGED <<page, env, other, docs, encoded, req, i, clock, results, staged, stagedDel, fs, data, dirs, commits,
                 ref, pub>>

\* the rebuild notification follows when a hook is configured
AfterPublish == IF env.hook THEN "notify" ELSE "respond"

\* setTimeout(resolve, 200) between two files, inside the try of the loop
Delay(n) == IF n < Len(req.files) THEN <<Call("sleep", n)>> ELSE <<>>

\* the category test inverted
VideoRejected_Inverted(f, category) == f.type = "video" /\ category = "film"

\* if (isVideo && category !== 'film') throw
VideoRejected(f, category) == IsVideo(f) /\ category # "film"

\* results.unshift(entry)
PushResult_Front(rs, entry) == <<entry>> \o rs

\* results.push(entry)
PushResult(rs, entry) == Append(rs, entry)

\* a catch that leaves the loop
LoopNext_Break(n, failed, after) ==
  IF failed THEN after ELSE IF n < Len(req.files) THEN "loop" ELSE after

\* the for loop with the try/catch inside it: after file n, failed or not,
\* the next file is taken; after the last one the handler goes on to `after`
LoopNext(n, failed, after) == IF n < Len(req.files) THEN "loop" ELSE after

\* processFile in local mode, and the catch of the loop around it; pause is
\* what follows a success inside the try.  The document is generated once
\* the directories are there and the image is read, before the three writes
ProcessLocal(f, ts, pause, after) ==
  LET steps == LocalSteps(f, ts, req.category, dirs) IN
  \E n \in 0..Len(steps) :
    /\ Possible(f, steps, n)
    /\ fs' = FilesAfter(fs, steps, n)
    /\ data' = Held(data, fs')
    /\ dirs' = DirsAfter(dirs, steps, n)
    /\ docs' = IF n >= Len(steps) - 3 THEN AddDoc(docs, f, ts) ELSE docs
    /\ encoded' = Encode(encoded, f, ts, ~IsVideo(f) /\ n >= Len(steps) - 2,
                         ~IsVideo(f) /\ n >= Len(steps) - 1)
    /\ IF n = Len(steps)
       THEN /\ results' = PushResult(results, Success(f, ts))
            /\ log' = log \o StepCalls(steps, n, i) \o pause
       ELSE /\ results' = PushResult(results, Failure(f, StepError(steps[n+1])))
            /\ log' = log \o StepCalls(steps, n, i)
    /\ pc' = LoopNext(i, n < Len(steps), after)

GitHubError == "GitHub request failed"

\* one iteration of the loop of upload.ts: processFile and its catch.  The
\* three commitToGitHub calls of Promise.all are independent (getContent,
\* whose failure is ignored, then createOrUpdateFileContents); the ones in ok
\* succeed, and all of them have settled before the next file is taken.
ProcessFile ==
  /\ pc = "loop"
  /\ req.endpoint = "upload"
  /\ LET f  == req.files[i]
         ts == clock
         paths == UploadPaths(f, ts, req.category)
         after == IF ~env.isDev THEN AfterPublish ELSE "respond"
         decode == IF IsVideo(f) THEN <<>> ELSE <<Call("decode", i)>>
         puts == [k \in 1..6 |-> Call(IF k <= 3 THEN "getContent"
                                      ELSE "createOrUpdateFileContents", i)]
     IN
     IF VideoRejected(f, req.category)
     THEN /\ results' = PushResult(results, Failure(f, VideoCategoryError))
          /\ pc' = LoopNext(i, TRUE, after)
          /\ UNCHANGED <<clock, fs, data, dirs, commits, ref, log, docs, encoded>>
     ELSE
       /\ clock' = clock + 1
       /\ IF env.isDev
          THEN /\ ProcessLocal(f, ts, Delay(i), after)
               /\ UNCHANGED <<commits, ref>>
          ELSE IF ~IsVideo(f) /\ f.corrupt
          THEN /\ results' = PushResult(results, Failure(f, DecodeError))
               /\ log' = log \o decode
               /\ pc' = LoopNext(i, TRUE, after)
               /\ UNCHANGED <<fs, data, dirs, commits, ref, docs, encoded>>
          ELSE IF ~env.creds
          THEN \* commitToGitHub warns and returns
               /\ results' = PushResult(results, Success(f, ts))
               /\ log' = log \o decode \o Delay(i)
               /\ pc' = LoopNext(i, FALSE, after)
               /\ docs' = AddDoc(docs, f, ts)
               /\ encoded' = Encode(encoded, f, ts, ~IsVideo(f), ~IsVideo(f))
               /\ UNCHANGED <<fs, data, dirs, commits, ref>>
          ELSE \E ok \in SUBSET (1..3) :
                 LET done == PutEach(commits, ref, Pick(paths, ok)) IN
                 /\ commits' = done.commits
                 /\ ref' = done.ref
                 /\ IF ok = 1..3
                    THEN /\ results' = PushResult(results, Success(f, ts))
                         /\ log' = log \o decode \o puts \o Delay(i)
                    ELSE /\ results' = PushResult(results, Failure(f, GitHubError))
                         /\ log' = log \o decode \o puts
                 /\ pc' = LoopNext(i, ok # 1..3, after)
                 /\ docs' = AddDoc(docs, f, ts)
                 /\ encoded' = Encode(encoded, f, ts, ~IsVideo(f), ~IsVideo(f))
                 /\ UNCHANGED <<fs, data, dirs>>
  /\ i' = i + 1
  /\ UNCHANGED <<page, env, other, req, staged, stagedDel, pub, response>>

\* one iteration of the loop of the batching upload handler: processFile
\* pushes onto filesToCommit instead of committing.  After the loop the
\* handler calls commitFilesToGitHub once when there is something to commit.
ProcessFileBatch ==
  /\ pc = "loop"
  /\ req.endpoint = "uploadBatch"
  /\ LET f  == req.files[i]
         ts == clock
         decode == IF IsVideo(f) THEN <<>> ELSE <<Call("decode", i)>>
         publish(files) == IF ~env.isDev /\ Len(files) > 0
                           THEN (IF env.creds THEN "getRef" ELSE AfterPublish)
                           ELSE "respond"
     IN
     IF VideoRejected(f, req.category)
     THEN /\ results' = PushResult(results, Failure(f, VideoCategoryError))
          /\ pc' = LoopNext(i, TRUE, publish(staged))
          /\ UNCHANGED <<clock, fs, data, dirs, staged, log, docs, encoded>>
     ELSE
       /\ clock' = clock + 1
       /\ IF env.isDev
          THEN /\ ProcessLocal(f, ts, <<>>, "respond")
               /\ UNCHANGED staged
          ELSE IF ~IsVideo(f) /\ f.corrupt
          THEN /\ results' = PushResult(results, Failure(f, DecodeError))
               /\ log' = log \o decode
               /\ pc' = LoopNext(i, TRUE, publish(staged))
               /\ UNCHANGED <<fs, data, dirs, staged, docs, encoded>>
          ELSE /\ results' = PushResult(results, Success(f, ts))
               /\ staged' = staged \o UploadPaths(f, ts, req.category)
               /\ log' = log \o decode
               /\ pc' = LoopNext(i, FALSE, publish(staged'))
               /\ docs' = AddDoc(docs, f, ts)
               /\ encoded' = Encode(encoded, f, ts, ~IsVideo(f), ~IsVideo(f))
               /\ UNCHANGED <<fs, data, dirs>>
  /\ i' = i + 1
  /\ UNCHANGED <<page, env, other, req, stagedDel, commits, ref, pub, response>>

(***************************************************************************)
(* The tree-based commit helper (commitFilesToGitHub, deleteFilesFromGitHub)*)
(* one action per awaited call.  A call that fails throws; the helper      *)
(* logs and rethrows, and the handler answers 500.                         *)
(***************************************************************************)
PublishError ==
  IF req.endpoint \in DeleteEndpoints THEN "Delete failed" ELSE "GitHub commit failed"

\* a catch that logs and does not rethrow
PublishFails_Swallowed ==
  /\ pc' = (IF env.hook THEN "notify" ELSE "respond")
  /\ UNCHANGED response

\* the throw of the helper reaches the handler's catch
PublishFails ==
  /\ pc' = "done"
  /\ response' = Reply(500, PublishError)

RECURSIVE IsAncestor(_, _)
\* commit a is commit c or one of its ancestors
IsAncestor(a, c) == c # 0 /\ (a = c \/ IsAncestor(a, commits[c].parent))

\* an update with force: true
FastForward_Forced(c) == c = c

\* git.updateRef without force: GitHub moves the branch only to a commit
\* that descends from the commit the branch points at
FastForward(c) == IsAncestor(ref, c)

\* tree entries in the order of the array: blobs, then deletions.  Whether
\* GitHub accepts a deletion entry (sha null) for a path that is not in the
\* base tree is not decided by the code: create-tree may fail or succeed.
\* Nor is it decided which entry counts for a path that has both a blob
\* entry and a deletion entry: PubCreateTree keeps any of those paths
NewTree(base, writes, deletes) == (base \cup writes) \ deletes

PubGetRef ==
  /\ pc = "getRef"
  /\ log' = Append(log, Call("getRef", 0))
  /\ \/ /\ pub' = [pub EXCEPT !.head = ref]
        /\ pc' = "getCommit"
        /\ UNCHANGED response
     \/ /\ PublishFails
        /\ UNCHANGED pub
  /\ UNCHANGED <<page, env, other, docs, encoded, req, i, clock, results, staged, stagedDel, fs, data, dirs, commits, ref>>

PubGetCommit ==
  /\ pc = "getCommit"
  /\ log' = Append(log, Call("getCommit", 0))
  /\ \/ /\ pub' = [pub EXCEPT !.base = commits[pub.head].tree]
        /\ pc' = IF req.endpoint = "delete" THEN "createTree" ELSE "createBlobs"
        /\ UNCHANGED response
     \/ /\ PublishFails
        /\ UNCHANGED pub
  /\ UNCHANGED <<page, env, other, docs, encoded, req, i, clock, results, staged, stagedDel, fs, data, dirs, commits, ref>>

\* files.map(createBlob) under Promise.all: every call is issued
PubCreateBlobs ==
  /\ pc = "createBlobs"
  /\ log' = log \o [k \in 1..Len(staged) |-> Call("createBlob", k)]
  /\ \/ /\ pc' = "createTree"
        /\ UNCHANGED response
     \/ /\ Len(staged) > 0
        /\ PublishFails
  /\ UNCHANGED <<page, env, other, docs, encoded, req, i, clock, results, staged, stagedDel, fs, data, dirs, commits,
                 ref, pub>>

PubCreateTree ==
  /\ pc = "createTree"
  /\ log' = Append(log, Call("createTree", 0))
  /\ \/ /\ \E kept \in SUBSET (SeqToSet(staged) \cap stagedDel) :
             pub' = [pub EXCEPT !.tree = NewTree(pub.base, SeqToSet(staged), stagedDel)
                                           \cup kept]
        /\ pc' = "createCommit"
        /\ UNCHANGED response
     \/ /\ PublishFails
        /\ UNCHANGED pub
  /\ UNCHANGED <<page, env, other, docs, encoded, req, i, clock, results, staged, stagedDel, fs, data, dirs, commits, ref>>

PubCreateCommit ==
  /\ pc = "createCommit"
  /\ log' = Append(log, Call("createCommit", 0))
  /\ \/ /\ commits' = Append(commits, [parent |-> pub.head, tree |-> pub.tree])
        /\ pub' = [pub EXCEPT !.commit = Len(commits) + 1]
        /\ pc' = "updateRef"
        /\ UNCHANGED response
     \/ /\ PublishFails
        /\ UNCHANGED <<pub, commits>>
  /\ UNCHANGED <<page, env, other, docs, encoded, req, i, clock, results, staged, stagedDel, fs, data, dirs, ref>>

PubUpdateRef ==
  /\ pc = "updateRef"
  /\ log' = Append(log, Call("updateRef", 0))
  /\ \/ /\ FastForward(pub.commit)
        /\ ref' = pub.commit
        /\ pc' = AfterPublish
        /\ UNCHANGED response
     \/ /\ PublishFails
        /\ UNCHANGED ref
  /\ UNCHANGED <<page, env, other, docs, encoded, req, i, clock, results, staged, stagedDel, fs, data, dirs, commits, pub>>

\* a failed fetch(buildHook) that reaches the catch of the handler
Notify_Rethrows ==
  /\ pc = "notify"
  /\ \/ /\ log' = Append(log, Call("buildHook", 0))
        /\ pc' = "respond"
        /\ UNCHANGED response
     \/ /\ log' = Append(log, Call("buildHookFailed", 0))
        /\ pc' = "done"
        /\ response' = Reply(500, PublishError)
  /\ UNCHANGED <<page, env, other, docs, encoded, req, i, clock, results, staged, stagedDel, fs, data, dirs, commits,
                 ref, pub>>

\* fetch(buildHook): a failure is logged and swallowed
Notify ==
  /\ pc = "notify"
  /\ \E ok \in BOOLEAN :
       log' = Append(log, Call(IF ok THEN "buildHook" ELSE "buildHookFailed", 0))
  /\ pc' = "respond"
  /\ UNCHANGED <<page, env, other, docs, encoded, req, i, clock, results, staged, stagedDel, fs, data, dirs, commits,
                 ref, pub, response>>

\* the 200 response that ends a handler's try block
Respond ==
  /\ pc = "respond"
  /\ pc' = "done"
  /\ response' = Reply(200, "success")
  /\ UNCHANGED <<page, env, other, docs, encoded, req, i, clock, results, staged, stagedDel, fs, data, dirs, commits,
                 ref, pub, log>>

(***************************************************************************)
(* Reorder.                                                                *)
(***************************************************************************)
\* a de-duplication that keeps an id at the position of its last occurrence
UniqueItems_Last(items) ==
  LET F[k \in 0..Len(items)] ==
        IF k = 0 THEN <<>>
        ELSE IF \E j \in (k+1)..Len(items) : items[j] = items[k] THEN F[k-1]
             ELSE Append(F[k-1], items[k])
  IN  F[Len(items)]

\* Array.from(new Map(items.map(item => [item.id, item])).values()): a Map
\* keeps a key at the position of its first insertion
UniqueItems(items) ==
  LET F[k \in 0..Len(items)] ==
        IF k = 0 THEN <<>>
        ELSE IF \E j \in 1..(k-1) : items[j] = items[k] THEN F[k-1]
             ELSE Append(F[k-1], items[k])
  IN  F[Len(items)]

\* the part after the first dash, the whole name when no dash follows a
\* first character
OriginalName(id) ==
  IF IndexOfDash(id) > 0 THEN Substring(id, IndexOfDash(id) + 1) ELSE id

\* `${orderPrefix}-${originalName}` for the item at 0-based position idx
NewFilename(id, idx) == OrderPrefix(idx + 1) \o <<"-">> \o OriginalName(id)

ReorderReadBody ==
  /\ pc = "body"
  /\ req.endpoint = "reorder"
  /\ log' = Append(log, Call("json", 0))
  /\ IF req.body = "malformed"
     THEN /\ pc' = "done"
          /\ response' = Reply(500, "Reorder failed")
     ELSE IF req.category = ""
     THEN /\ pc' = "done"
          /\ response' = Reply(400, "Invalid request")
     ELSE /\ pc' = "reorder"
          /\ UNCHANGED response
  /\ UNCHANGED <<page, env, other, docs, encoded, req, i, clock, results, staged, stagedDel, fs, data, dirs, commits,
                 ref, pub>>

\* a rename straight to the final name
TempFilename_Final(id, idx) == OrderPrefix(idx + 1) \o <<"-">> \o OriginalName(id)

\* `__temp_${i}_${oldFilename}`
TempFilename(id, idx) == <<"__temp_">> \o Digits(idx) \o <<"_">> \o id

\* tempFilename.replace(`__temp_${index}_`, ''): the first occurrence is
\* removed, the name is unchanged where there is none
StripTemp(name, idx) ==
  LET pre == <<"__temp_">> \o Digits(idx) \o <<"_">>
      at  == { k \in 1..(Len(name) - Len(pre) + 1) :
                 SubSeq(name, k, k + Len(pre) - 1) = pre }
  IN  IF at = {} THEN name
      ELSE LET k == CHOOSE x \in at : \A y \in at : x <= y
           IN  SubSeq(name, 1, k - 1) \o SubSeq(name, k + Len(pre), Len(name))

RECURSIVE Phase1(_, _, _, _, _, _)
\* phase 1 from item k on: items that do not exist are skipped, the others
\* are renamed to their temporary name; budget renames succeed, the next throws
Phase1(d, items, k, temps, budget, calls) ==
  IF k > Len(items)
  THEN [data |-> d, temps |-> temps, budget |-> budget, calls |-> calls, failed |-> FALSE]
  ELSE LET old == Path(ContentDir(req.category), items[k])
           tmp == Path(ContentDir(req.category), TempFilename(items[k], k - 1))
       IN  IF old \notin DOMAIN d
           THEN Phase1(d, items, k + 1, temps, budget, Append(calls, Call("stat", k)))
           ELSE IF budget = 0
           THEN [data |-> d, temps |-> temps, budget |-> 0,
                 calls |-> calls \o <<Call("stat", k), Call("rename", k)>>, failed |-> TRUE]
           ELSE Phase1(Rename(d, old, tmp), items, k + 1,
                       Append(temps, [tempFilename |-> tmp.file, index |-> k - 1]),
                       budget - 1,
                       calls \o <<Call("stat", k), Call("rename", k)>>)

RECURSIVE Phase2(_, _, _, _, _)
\* phase 2 from temporary name k on: each is renamed to its final name
Phase2(d, temps, k, budget, calls) ==
  IF k > Len(temps)
  THEN [data |-> d, calls |-> calls, failed |-> FALSE]
  ELSE LET originalFilename == StripTemp(temps[k].tempFilename, temps[k].index)
           tmp == Path(ContentDir(req.category), temps[k].tempFilename)
           new == Path(ContentDir(req.category),
                       NewFilename(originalFilename, temps[k].index))
       IN  IF budget = 0
           THEN [data |-> d, calls |-> Append(calls, Call("rename", temps[k].index + 1)),
                 failed |-> TRUE]
           ELSE Phase2(Rename(d, tmp, new), temps, k + 1, budget - 1,
                       Append(calls, Call("rename", temps[k].index + 1)))

\* the two-phase rename of local mode
ReorderLocal ==
  /\ pc = "reorder"
  /\ env.isDev
  /\ LET items == UniqueItems(req.items) IN
     \E budget \in 0..(2 * Len(items)) :
       LET p1 == Phase1(data, items, 1, <<>>, budget, <<>>)
           p2 == Phase2(p1.data, p1.temps, 1, p1.budget, p1.calls)
       IN  IF p1.failed
           THEN /\ data' = p1.data
                /\ log' = log \o p1.calls
                /\ pc' = "done"
                /\ response' = Reply(500, "Reorder failed")
           ELSE IF p2.failed
           THEN /\ data' = p2.data
                /\ log' = log \o p2.calls
                /\ pc' = "done"
                /\ response' = Reply(500, "Reorder failed")
           ELSE /\ data' = p2.data
                /\ log' = log \o p2.calls
                /\ pc' = "respond"
                /\ UNCHANGED response
  /\ fs' = DOMAIN data'
  /\ UNCHANGED <<page, env, other, docs, encoded, req, i, clock, results, staged, stagedDel, dirs, commits, ref, pub>>

\* the items whose name changes, in order: [id, index]
Renamed(items) ==
  LET F[k \in 0..Len(items)] ==
        IF k = 0 THEN <<>>
        ELSE IF items[k] = NewFilename(items[k], k - 1) THEN F[k-1]
             ELSE Append(F[k-1], [id |-> items[k], index |-> k - 1])
  IN  F[Len(items)]

\* remote mode: every renamed item is read from the working directory and
\* collected; one commitFilesToGitHub call writes the new paths and deletes
\* the old ones
ReorderStage ==
  /\ pc = "reorder"
  /\ ~env.isDev
  /\ LET todo == Renamed(UniqueItems(req.items))
         old(k) == Path(ContentDir(req.category), todo[k].id)
         new(k) == Path(ContentDir(req.category), NewFilename(todo[k].id, todo[k].index))
         missing == { k \in 1..Len(todo) : old(k) \notin fs }
         reads == IF missing = {} THEN Len(todo)
                  ELSE CHOOSE k \in missing : \A j \in missing : k <= j
     IN
     /\ log' = log \o [k \in 1..reads |-> Call("readFile", todo[k].index + 1)]
     /\ IF missing # {}
        THEN /\ pc' = "done"
             /\ response' = Reply(500, "Reorder failed")
             /\ UNCHANGED <<staged, stagedDel>>
        ELSE IF Len(todo) > 0
        THEN /\ staged' = [k \in 1..Len(todo) |-> new(k)]
             /\ stagedDel' = { old(k) : k \in 1..Len(todo) }
             /\ pc' = IF env.creds THEN "getRef" ELSE AfterPublish
             /\ UNCHANGED response
        ELSE /\ pc' = "respond"
             /\ UNCHANGED <<staged, stagedDel, response>>
  /\ UNCHANGED <<page, env, other, docs, encoded, req, i, clock, results, fs, data, dirs, commits, ref, pub>>

(***************************************************************************)
(* Delete.                                                                 *)
(***************************************************************************)
DeleteReadBody ==
  /\ pc = "body"
  /\ req.endpoint \in DeleteEndpoints
  /\ log' = Append(log, Call("json", 0))
  /\ IF req.body = "malformed"
     THEN /\ pc' = "done"
          /\ response' = Reply(500, "Delete failed")
     ELSE IF req.id = <<>> \/ req.category = "" \/ req.filePath = NoPath
     THEN /\ pc' = "done"
          /\ response' = Reply(400, "Missing required fields")
     ELSE /\ pc' = "delete"
          /\ UNCHANGED response
  /\ UNCHANGED <<page, env, other, docs, encoded, req, i, clock, results, staged, stagedDel, fs, data, dirs, commits,
                 ref, pub>>

\* the paths a delete request names: metadata document, asset, thumbnail
DeletePaths ==
  << Path(ContentDir(req.category), req.id), PublicPath(req.filePath) >> \o
  ( IF req.thumbnailPath # NoPath THEN <<PublicPath(req.thumbnailPath)>> ELSE <<>> )

\* local mode, the same in both delete handlers: the unlinks in ok succeed;
\* unlink of a file that does not exist throws; only the thumbnail's unlink
\* is inside a try
DeleteLocal ==
  /\ pc = "delete"
  /\ env.isDev
  /\ LET paths == DeletePaths IN
     \E ok \in SUBSET (1..Len(paths)) :
       /\ \A k \in ok : paths[k] \in fs
       /\ 1 \notin ok => ok = {}
       /\ 2 \notin ok => ok \subseteq {1}
       /\ fs' = fs \ { paths[k] : k \in ok }
       /\ data' = Held(data, fs')
       /\ log' = log \o [k \in 1..(IF {1, 2} \subseteq ok THEN Len(paths)
                                   ELSE Cardinality(ok) + 1) |-> Call("unlink", k)]
       /\ IF {1, 2} \subseteq ok
          THEN /\ pc' = "respond"
               /\ UNCHANGED response
          ELSE /\ pc' = "done"
               /\ response' = Reply(500, "Delete failed")
  /\ UNCHANGED <<page, env, other, docs, encoded, req, i, clock, results, staged, stagedDel, dirs, commits, ref, pub>>

\* delete.ts, remote mode: one deleteFilesFromGitHub call for all paths
DeleteStage ==
  /\ pc = "delete"
  /\ ~env.isDev
  /\ req.endpoint = "delete"
  /\ stagedDel' = SeqToSet(DeletePaths)
  /\ pc' = IF env.creds THEN "getRef" ELSE AfterPublish
  /\ UNCHANGED <<page, env, other, docs, encoded, req, i, clock, results, staged, fs, data, dirs, commits, ref, pub,
                 response, log>>

RECURSIVE DeleteEachFile(_, _, _)
\* repos.deleteFile for each path of ps: one commit on the branch head per call
DeleteEachFile(cs, r, ps) ==
  IF ps = <<>> THEN [commits |-> cs, ref |-> r]
  ELSE LET c == [parent |-> r, tree |-> cs[r].tree \ {Head(ps)}]
       IN  DeleteEachFile(Append(cs, c), Len(cs) + 1, Tail(ps))

\* the per-file delete handler, remote mode: Promise.all of one
\* deleteFromGitHub per path (getContent, then deleteFile).  The calls in ok
\* succeed; getContent of a path that is not on the branch throws.
DeleteEach ==
  /\ pc = "delete"
  /\ ~env.isDev
  /\ req.endpoint = "deleteEach"
  /\ LET paths == DeletePaths IN
     IF ~env.creds
     THEN /\ pc' = AfterPublish
          /\ UNCHANGED <<commits, ref, response, log>>
     ELSE \E ok \in SUBSET (1..Len(paths)) :
            LET after == DeleteEachFile(commits, ref, Pick(paths, ok)) IN
            /\ \A k \in ok : paths[k] \in BranchTree
            /\ commits' = after.commits
            /\ ref' = after.ref
            /\ log' = log \o [k \in 1..Len(paths) |-> Call("getContent", k)]
                          \o [k \in 1..Cardinality({ j \in 1..Len(paths) : paths[j] \in BranchTree })
                                |-> Call("deleteFile", k)]
            /\ IF ok = 1..Len(paths)
               THEN /\ pc' = AfterPublish
                    /\ UNCHANGED response
               ELSE /\ pc' = "done"
                    /\ response' = Reply(500, "Delete failed")
  /\ UNCHANGED <<page, env, other, docs, encoded, req, i, clock, results, staged, stagedDel, fs, data, dirs, pub>>

(***************************************************************************)
(* Content listing (GET): the ids of the category sorted with              *)
(* a.id.localeCompare(b.id).  The ids are file names of the category       *)
(* directory; punctuation collates before digits, digits before letters.   *)
(***************************************************************************)
Collation ==
  <<"__temp_", "_", "-", ".md", "0", "1", "2", "3", "4", "5", "6", "7", "8", "9",
    "a", "b", "x">>

Rank(t) ==
  IF \E k \in 1..Len(Collation) : Collation[k] = t
  THEN CHOOSE k \in 1..Len(Collation) : Collation[k] = t
  ELSE Len(Collation) + 1

\* a.localeCompare(b) < 0
RECURSIVE LocaleLess(_, _)
LocaleLess(a, b) ==
  IF Len(b) = 0 THEN FALSE
  ELSE IF Len(a) = 0 THEN TRUE
  ELSE IF Rank(a[1]) # Rank(b[1]) THEN Rank(a[1]) < Rank(b[1])
  ELSE LocaleLess(Tail(a), Tail(b))

\* collection.sort(compare) on distinct ids
RECURSIVE SortIds(_)
SortIds(S) ==
  IF S = {} THEN <<>>
  ELSE LET m == CHOOSE x \in S : \A y \in S \ {x} : LocaleLess(x, y)
       IN  <<m>> \o SortIds(S \ {m})

\* the ids the listing returns for a category, in the order returned
Listing(files, category) ==
  SortIds({ p.file : p \in { q \in files : q.dir = ContentDir(category) } })

ContentList ==
  /\ pc = "body"
  /\ req.endpoint = "content"
  /\ IF req.category = ""
     THEN /\ pc' = "done"
          /\ response' = Reply(400, "Category required")
          /\ UNCHANGED log
     ELSE /\ log' = Append(log, Call("getCollection", 0))
          /\ \/ /\ pc' = "done"
                /\ response' = Reply(200, "items")
             \/ /\ pc' = "done"
                /\ response' = Reply(500, "Failed to fetch content")
  /\ UNCHANGED <<page, env, other, docs, encoded, req, i, clock, results, staged, stagedDel, fs, data, dirs, commits,
                 ref, pub>>

(***************************************************************************)
(* Two simultaneous requests in remote mode.  The first is followed as     *)
(* before; of the second only its call of the tree-based commit helper is  *)
(* followed: get-ref, the calls up to create-commit, update-ref.           *)
(***************************************************************************)
\* the file the second request publishes
OtherFile == Path(ContentDir("portraits"), <<"9", "-", "o", ".md">>)

\* an authenticated, well-formed request to a handler that uses the helper
RaceReceive ==
  /\ pc = "idle"
  /\ \E r \in Requests :
       /\ r.endpoint \in TreeEndpoints
       /\ r.cookie = SessionCookie
       /\ r.body = "ok"
       /\ req' = [r EXCEPT !.issued = TRUE]
  /\ pc' = "gate"
  /\ UNCHANGED <<page, env, other, docs, encoded, i, clock, results, staged, stagedDel, fs, data, dirs,
                 commits, ref, pub, response, log>>

OtherGetRef ==
  /\ other.pc = "idle"
  /\ other' = [other EXCEPT !.pc = "read", !.head = ref]
  /\ UNCHANGED <<page, env, docs, encoded, pc, req, i, clock, results, staged, stagedDel, fs, data, dirs,
                 commits, ref, pub, response, log>>

OtherCreateCommit ==
  /\ other.pc = "read"
  /\ commits' = Append(commits, [parent |-> other.head,
                                 tree |-> commits[other.head].tree \cup {OtherFile}])
  /\ other' = [other EXCEPT !.pc = "committed", !.commit = Len(commits) + 1]
  /\ UNCHANGED <<page, env, docs, encoded, pc, req, i, clock, results, staged, stagedDel, fs, data, dirs,
                 ref, pub, response, log>>

\* the helper rethrows a rejected update and the second request answers 500
OtherUpdateRef ==
  /\ other.pc = "committed"
  /\ \/ /\ FastForward(other.commit)
        /\ ref' = other.commit
        /\ other' = [other EXCEPT !.pc = "done", !.status = 200]
     \/ /\ other' = [other EXCEPT !.pc = "done", !.status = 500]
        /\ UNCHANGED ref
  /\ UNCHANGED <<page, env, docs, encoded, pc, req, i, clock, results, staged, stagedDel, fs, data, dirs,
                 commits, pub, response, log>>

(***************************************************************************)
(* Properties.                                                             *)
(***************************************************************************)
FirstCommit == <<[parent |-> 0, tree |-> InitialTree]>>

\* nothing was read, written, renamed, deleted, committed or notified
Untouched ==
  /\ fs = InitialTree
  /\ dirs = InitialDirs
  /\ commits = FirstCommit
  /\ ref = 1
  /\ staged = <<>>
  /\ stagedDel = {}
  /\ log = <<>>

Arrived == pc # "idle"

IsPrefix(a, b) == Len(a) <= Len(b) /\ SubSeq(b, 1, Len(a)) = a

HelperOps == {"getRef", "getCommit", "createBlob", "createTree", "createCommit", "updateRef"}

IsHelperCall(c) == c.op \in HelperOps

\* the calls of the tree-based helper made so far, by name
HelperCalled ==
  LET calls == SelectSeq(log, IsHelperCall) IN [k \in 1..Len(calls) |-> calls[k].op]

\* the calls of a complete run of the helper of the request's handler
AllHelperSteps ==
  <<"getRef", "getCommit">> \o
  (IF req.endpoint = "delete" THEN <<>> ELSE [k \in 1..Len(staged) |-> "createBlob"]) \o
  <<"createTree", "createCommit", "updateRef">>

\* file k of the batch is a video and the category is not film
WrongVideo(k) == req.files[k].type = "video" /\ req.category # "film"

\* the cookies of the unauthorized cases
C1_RejectedCookie(c) ==
  \/ c.raw \in {"absent", "garbage"}
  \/ c.raw = "object" /\ c.auth \in {"missing", "false"}

\* C1: with the github_session cookie missing, unparseable, or parsed to an
\* object whose authenticated flag is missing or false, every admin handler
\* answers 401 Unauthorized, and up to that answer it has read no body and
\* made no storage, remote or build-hook call
C1_UnauthorizedBeforeAnyWork ==
  (Arrived /\ C1_RejectedCookie(req.cookie)) =>
    /\ Untouched
    /\ pc \in {"gate", "done"}
    /\ pc = "done" => response = Reply(401, "Unauthorized")

C1_Witness ==
  /\ pc = "done"
  /\ req.endpoint = "reorder"
  /\ req.cookie = [raw |-> "object", auth |-> "false"]
  /\ req.items = <<ItemB, ItemA>>
  /\ response.status = 401
  /\ Untouched

\* C2: in remote mode the tree-based commit helper issues its calls in the
\* order get-ref, get-commit, create-blobs, create-tree, create-commit,
\* update-ref; the branch reference differs from its value before the call
\* only once all of them, update-ref last, have been made and none failed;
\* and when the helper has ended with the reference unmoved, the request has
\* ended with the handler's error response
C2_RefMovesOnlyAtLastStep ==
  (Arrived /\ ~env.isDev /\ req.endpoint \in TreeEndpoints) =>
    /\ IsPrefix(HelperCalled, AllHelperSteps)
    /\ ref # 1 =>
         /\ HelperCalled = AllHelperSteps
         /\ ref = pub.commit
         /\ commits[ref].parent = 1
         /\ response.status # 500
    /\ (HelperCalled # <<>> /\ pc \in {"notify", "respond", "done"} /\ ref = 1) =>
         /\ pc = "done"
         /\ response.status = 500

C2_Witness ==
  /\ pc = "done"
  /\ ~env.isDev
  /\ req.endpoint = "reorder"
  /\ HelperCalled = AllHelperSteps
  /\ Len(commits) = 2
  /\ ref = 1
  /\ response = Reply(500, "GitHub commit failed")

\* C3: in remote mode, when an upload request has ended, each uploaded item
\* has its asset, its thumbnail and its metadata document all on the branch
\* or none of them
C3_NoPartialUpload ==
  (pc = "done" /\ ~env.isDev /\ req.endpoint \in UploadEndpoints) =>
    \A k \in 1..Len(req.files) : \A ts \in 1..clock :
      LET paths == SeqToSet(UploadPaths(req.files[k], ts, req.category))
      IN  paths \subseteq BranchTree \/ paths \cap BranchTree = {}

\* C4: in remote mode the files of one upload request reach the branch in
\* one commit: the branch head is the commit before the request or a child
\* of it, and no more than one commit was made
C4_OneCommitPerUpload ==
  (Arrived /\ ~env.isDev /\ req.endpoint \in UploadEndpoints) =>
    /\ Len(commits) <= 2
    /\ ref = 1 \/ commits[ref].parent = 1

\* C5: in remote mode a reorder request and a delete request move the branch
\* at most once, with one commit for all renames or removals: no more than
\* one commit is made, and the branch head is the commit before the request
\* or a child of it
C5_OneBranchUpdate ==
  (Arrived /\ ~env.isDev /\ req.endpoint \in DeleteEndpoints \cup {"reorder"}) =>
    /\ Len(commits) <= 2
    /\ ref = 1 \/ commits[ref].parent = 1

\* the stored name of an uploaded file, without its timestamp
C6_StoredName(f) ==
  IF f.type = "video" THEN SafeName(f.name)
  ELSE ReplaceImageExt(SafeName(f.name), <<".webp">>)

C6_Describes(e, f) ==
  IF e.success
  THEN /\ IndexOfDash(e.file) > 0
       /\ Substring(e.file, IndexOfDash(e.file) + 1) = C6_StoredName(f)
  ELSE e.file = f.name /\ e.error # ""

\* C6: when an upload of a non-empty batch returns the results list, the
\* list has one entry per input file, and entry k is the entry of file k:
\* a failure entry carries the file's name, a success entry the stored name
\* made from it
C6_ResultsMirrorInput ==
  (pc = "done" /\ req.endpoint \in UploadEndpoints /\ response.status = 200) =>
    /\ Len(results) = Len(req.files)
    /\ \A k \in 1..Len(results) : C6_Describes(results[k], req.files[k])

C6_Witness ==
  /\ pc = "done"
  /\ req.endpoint = "upload"
  /\ response.status = 200
  /\ Len(req.files) = 2
  /\ req.files[1].name # req.files[2].name
  /\ ~results[1].success
  /\ results[2].success

\* the calls made while one file of a batch is processed
C7_FileCalls ==
  {"decode", "mkdir", "write", "ffmpeg", "getContent", "createOrUpdateFileContents", "sleep"}

\* C7: a video in a batch whose category is not film gets, at its own
\* position and nowhere else, the failure entry with the Film-category
\* message; no call is made and nothing is stored or staged for it; and the
\* loop goes on, so that every file of the batch gets its entry
C7_VideoOnlyInFilm ==
  (Arrived /\ req.endpoint \in UploadEndpoints) =>
    /\ \A k \in 1..Len(results) :
         WrongVideo(k) <=>
           results[k] = [success |-> FALSE, file |-> req.files[k].name,
                         content |-> <<>>, error |-> VideoCategoryError]
    /\ \A k \in 1..Len(log) : log[k].op \in C7_FileCalls => ~WrongVideo(log[k].n)
    /\ req.category # "film" =>
         /\ VideosDir \notin dirs
         /\ \A p \in fs \cup BranchTree \cup SeqToSet(staged) : p.dir # VideosDir
    /\ pc = "loop" => Len(results) = i - 1
    /\ (pc \notin {"gate", "body", "loop"} /\ results # <<>>) =>
         Len(results) = Len(req.files)

C7_Witness ==
  /\ pc = "done"
  /\ response.status = 200
  /\ Len(req.files) = 2
  /\ WrongVideo(1)
  /\ results[1].error = VideoCategoryError
  /\ results[2].success
  /\ MdPath(req.files[2], 1, req.category) \in fs \cup BranchTree

\* the messages of a failed decode and of a failed frame extraction
C8_TranscodeErrors == {DecodeError, "ffmpeg exited with code 1"}

C8_TranscodeFailed == \E k \in 1..Len(results) : results[k].error \in C8_TranscodeErrors

\* C8: a decode or transcode failure of one file of a batch is a failure
\* entry at that file's position; the batch is not cut short by it, later
\* files can succeed, and the request does not answer with an error unless
\* the single commit that follows the batch failed
C8_DecodeFailureIsolated ==
  (Arrived /\ req.endpoint \in UploadEndpoints) =>
    /\ \A k \in 1..Len(results) :
         /\ results[k].error \in C8_TranscodeErrors =>
              results[k] = Failure(req.files[k], results[k].error)
         /\ results[k].error = DecodeError =>
              req.files[k].type = "image" /\ req.files[k].corrupt
         /\ (req.files[k].type = "image" /\ req.files[k].corrupt) => ~results[k].success
    /\ (C8_TranscodeFailed /\ pc # "loop") => Len(results) = Len(req.files)
    /\ (C8_TranscodeFailed /\ pc = "done") =>
         \/ response.status = 200
         \/ /\ response = Reply(500, "GitHub commit failed")
            /\ HelperCalled # <<>>

C8_Witness ==
  /\ pc = "done"
  /\ env.isDev
  /\ response.status = 200
  /\ Len(req.files) = 2
  /\ results[1].error = DecodeError
  /\ results[2].success
  /\ SeqToSet(UploadPaths(req.files[2], 2, req.category)) \subseteq fs

\* the messages of a failed local write and of a failed GitHub call
C9_PersistenceErrors == {"EACCES: permission denied", GitHubError}

\* C9: an upload whose local write or remote commit failed does not answer
\* 200 with that failure as an entry of the results list
C9_PersistenceFailsRequest ==
  (pc = "done" /\ req.endpoint \in UploadEndpoints /\ response.status = 200) =>
    \A k \in 1..Len(results) : results[k].error \notin C9_PersistenceErrors

\* C10: a request gets past the gate of an admin handler only with a cookie
\* that parses to an object whose authenticated field is the boolean true;
\* with any other value of the field the answer is 401
C10_OnlyBooleanTrue ==
  (pc \notin {"idle", "gate"}) =>
    \/ req.cookie = [raw |-> "object", auth |-> "true"]
    \/ pc = "done" /\ response.status = 401

\* C11: a request whose session cookie was not issued by the login
\* callback, the client-made {"authenticated": true} in particular, does not
\* get past the gate: it is answered 401 and nothing is written, renamed,
\* deleted, committed or notified for it
C11_FabricatedCookieRejected ==
  (Arrived /\ ~req.issued /\ req.cookie.auth = "true") =>
    /\ Untouched
    /\ pc \in {"gate", "done"}
    /\ pc = "done" => response = Reply(401, "Unauthorized")

\* the index of the first occurrence of id in the request's list
C12_FirstIndex(id) ==
  CHOOSE k \in 1..Len(req.items) :
    req.items[k] = id /\ \A j \in 1..(k-1) : req.items[j] # id

\* the 1-based position of id among the distinct ids, in order of first
\* occurrence
C12_Position(id) ==
  Cardinality({ req.items[j] : j \in 1..(C12_FirstIndex(id) - 1) }) + 1

C12_OldPath(id) == Path(ContentDir(req.category), id)

C12_NewPath(id) ==
  Path(ContentDir(req.category),
       PadStart(Digits(C12_Position(id)), 4) \o <<"-">> \o OriginalName(id))

C12_Count(s, x) == Cardinality({ k \in 1..Len(s) : s[k] = x })

\* the ids of the request whose name changes
C12_Moved == { id \in SeqToSet(req.items) : C12_NewPath(id) # C12_OldPath(id) }

\* C12: reorder handles each distinct id of its input once, at its 1-based
\* position among the distinct ids in order of first occurrence.  Local
\* mode, after a reorder that succeeded: what every listed item that existed
\* held is stored under the name with that position's prefix, and was renamed once
\* to its temporary and once to its final name.  Remote mode, once the
\* renames are staged: every listed id whose name changes is staged once,
\* under that name, with its old path staged for deletion, and nothing else
\* is staged
C12_EachIdOnceAtFirstPosition ==
  (req.endpoint = "reorder" /\ pc \in {"getRef", "notify", "respond", "done"}
     /\ response.status \in {0, 200}) =>
    IF env.isDev
    THEN \A id \in SeqToSet(req.items) :
           IF C12_OldPath(id) \in InitialTree
           THEN /\ C12_NewPath(id) \in fs
                /\ data[C12_NewPath(id)] = C12_OldPath(id)
                /\ C12_Count(log, Call("rename", C12_Position(id))) = 2
           ELSE C12_Count(log, Call("rename", C12_Position(id))) = 0
    ELSE /\ \A id \in C12_Moved :
              /\ C12_Count(staged, C12_NewPath(id)) = 1
              /\ C12_OldPath(id) \in stagedDel
         /\ Len(staged) = Cardinality(C12_Moved)
         /\ Cardinality(stagedDel) = Cardinality(C12_Moved)

C12_Witness ==
  /\ pc = "done"
  /\ response.status = 200
  /\ env.isDev
  /\ req.endpoint = "reorder"
  /\ req.items = <<ItemB, ItemA, ItemB>>
  /\ Path(ContentDir("portraits"), <<"0", "0", "0", "1", "-", "b", ".md">>) \in fs
  /\ Path(ContentDir("portraits"), <<"0", "0", "0", "2", "-", "a", ".md">>) \in fs
  /\ Cardinality(fs) = Cardinality(InitialTree)

\* the part of a name after its first dash
C13_AfterDash(id) == SubSeq(id, IndexOfDash(id) + 2, Len(id))

\* the name of the item at 1-based position k after the reorder
C13_Target(k) ==
  Path(ContentDir(req.category),
       PadStart(Digits(k), 4) \o <<"-">> \o C13_AfterDash(req.items[k]))

\* the request lists distinct ids, each of a file that exists
C13_DistinctExisting ==
  /\ \A j, k \in 1..Len(req.items) : req.items[j] = req.items[k] => j = k
  /\ \A k \in 1..Len(req.items) : Path(ContentDir(req.category), req.items[k]) \in InitialTree

\* C13: after a local-mode reorder of distinct ids that all exist, the file
\* of the item at position k is stored under the 4-digit prefix of k, a dash
\* and its old name after the first dash; what each listed file held is
\* held by exactly one file, so none was overwritten or lost; and no
\* temporary name is left
C13_TwoPhaseRename ==
  (req.endpoint = "reorder" /\ env.isDev /\ pc \in {"respond", "done"}
     /\ response.status \in {0, 200} /\ C13_DistinctExisting) =>
    /\ \A k \in 1..Len(req.items) :
         LET old == Path(ContentDir(req.category), req.items[k]) IN
         /\ C13_Target(k) \in fs
         /\ data[C13_Target(k)] = old
         /\ Cardinality({ p \in fs : data[p] = old }) = 1
    /\ \A p \in fs : p.file[1] # "__temp_"

C13_Witness ==
  /\ pc = "done"
  /\ response.status = 200
  /\ env.isDev
  /\ req.endpoint = "reorder"
  /\ req.items = <<ItemC, ItemA>>
  /\ data[Path(ContentDir("portraits"), <<"0", "0", "0", "1", "-", "a", ".md">>)]
       = Path(ContentDir("portraits"), ItemC)
  /\ data[Path(ContentDir("portraits"), <<"0", "0", "0", "2", "-", "a", ".md">>)]
       = Path(ContentDir("portraits"), ItemA)

\* the rebuild notification was tried and failed
C14_HookFailed == \E k \in 1..Len(log) : log[k] = Call("buildHookFailed", 0)

\* C14: a rebuild notification that fails does not fail the request: the
\* handler goes on to its success response, the one it gives when the
\* notification succeeds, and the notification step, failed or not, leaves
\* the results, the working directory and the branch as they were
C14_HookFailureSwallowed ==
  /\ [](C14_HookFailed => /\ pc \in {"respond", "done"}
                          /\ pc = "done" => response = Reply(200, "success"))
  /\ [][pc = "notify" => /\ pc' = "respond"
                         /\ UNCHANGED <<results, fs, data, dirs, commits, ref, response>>]_vars

C14_Witness ==
  /\ pc = "done"
  /\ C14_HookFailed
  /\ req.endpoint = "delete"
  /\ response = Reply(200, "success")
  /\ ref = 2
  /\ BranchTree = InitialTree \ SeqToSet(DeletePaths)

\* the storage a delete request works on: the working directory in local
\* mode, the branch in remote mode
C15_Stored == IF env.isDev THEN fs ELSE BranchTree

\* the request names no thumbnail, or one that does not exist
C15_ThumbnailMissing ==
  \/ req.thumbnailPath = NoPath
  \/ PublicPath(req.thumbnailPath) \notin InitialTree

\* the metadata document and the asset existed and are removed
C15_PrimaryRemoved ==
  /\ {DeletePaths[1], DeletePaths[2]} \subseteq InitialTree
  /\ {DeletePaths[1], DeletePaths[2]} \cap C15_Stored = {}

\* C15: a delete request whose thumbnail path is absent or names no file,
\* and whose metadata document and asset have been removed, answers with
\* success, in local and in remote mode
C15_MissingThumbnailTolerated ==
  (pc = "done" /\ req.endpoint \in DeleteEndpoints /\ C15_ThumbnailMissing
     /\ C15_PrimaryRemoved) =>
    response = Reply(200, "success")

\* C16: a delete request whose metadata document or asset does not exist
\* never ends with the success response, in local and in remote mode
C16_MissingPrimaryIsError ==
  (pc = "done" /\ req.endpoint \in DeleteEndpoints /\ req.body = "ok"
     /\ ~({DeletePaths[1], DeletePaths[2]} \subseteq InitialTree)) =>
    response.status \notin {0, 200}

\* C17: an upload whose category is not one of the site's collections is
\* rejected: it does not answer with success, and no file, directory or
\* commit is made or staged for it
C17_CategoryValidated ==
  (Arrived /\ req.endpoint \in UploadEndpoints /\ req.category \notin Categories) =>
    /\ fs = InitialTree
    /\ dirs = InitialDirs
    /\ commits = FirstCommit
    /\ staged = <<>>
    /\ pc = "done" => response.status # 200

\* both publishes have read the branch head and read the same commit
C18_SameHead == pub.head # 0 /\ pub.head = other.head

\* the update-ref of the first request was issued
C18_UpdateRefIssued == \E k \in 1..Len(log) : log[k] = Call("updateRef", 0)

\* the update-ref of the first request was issued and did not fail
C18_Succeeded == C18_UpdateRefIssued /\ response.status # 500

C18_OtherSucceeded == other.pc = "done" /\ other.status = 200

\* C18: when the publishes of two simultaneous requests have read the same
\* branch head, their update-refs do not both succeed; the one issued after
\* the other has succeeded fails and its request answers with the error
\* response; no step of the helper is issued a second time; and the commit
\* of a publish that succeeded stays in the history of the branch
C18_RaceLosesNoUpdate ==
  /\ C18_SameHead => ~(C18_Succeeded /\ C18_OtherSucceeded)
  /\ (C18_SameHead /\ C18_OtherSucceeded /\ C18_UpdateRefIssued) =>
       /\ pc = "done"
       /\ response = Reply(500, PublishError)
  /\ (C18_SameHead /\ C18_Succeeded /\ other.pc = "done") => other.status = 500
  /\ Arrived => IsPrefix(HelperCalled, AllHelperSteps)
  /\ C18_OtherSucceeded => IsAncestor(other.commit, ref)
  /\ C18_Succeeded => IsAncestor(pub.commit, ref)

C18_Witness ==
  /\ C18_SameHead
  /\ C18_OtherSucceeded
  /\ req.endpoint = "reorder"
  /\ HelperCalled = AllHelperSteps
  /\ pc = "done"
  /\ response = Reply(500, "GitHub commit failed")
  /\ ref = other.commit
  /\ OtherFile \in BranchTree

\* the document generated for the success entry at position k
C19_Doc(k) == docs[results[k].content]

\* C19: every success entry of an uploaded image has a file field that ends
\* in .webp, and the image path of the image's metadata document names the
\* file of that field
C19_ImageResultIsWebp ==
  (Arrived /\ req.endpoint \in UploadEndpoints) =>
    \A k \in 1..Len(results) :
      (results[k].success /\ req.files[k].type = "image") =>
        /\ results[k].file[Len(results[k].file)] = ".webp"
        /\ results[k].content \in DOMAIN docs
        /\ C19_Doc(k).image = Path(SitePhotos, results[k].file)

\* a name without its last extension
C20_Title(name) ==
  IF name[Len(name)] \in ExtTokens THEN SubSeq(name, 1, Len(name) - 1) ELSE name

\* C20: the metadata document generated for every uploaded item has order
\* 0 and as title the name of the uploaded file without its last extension;
\* the document of a photo has the width and the height read from the image
C20_NewDocumentFields ==
  (Arrived /\ req.endpoint \in UploadEndpoints) =>
    /\ \A k \in 1..Len(results) :
         results[k].success =>
           /\ results[k].content \in DOMAIN docs
           /\ C19_Doc(k).order = 0
           /\ C19_Doc(k).title = C20_Title(req.files[k].name)
           /\ req.files[k].type = "image" =>
                /\ C19_Doc(k).width = req.files[k].width
                /\ C19_Doc(k).height = req.files[k].height
    /\ \A d \in DOMAIN docs : docs[d].order = 0

C20_Witness ==
  /\ pc = "done"
  /\ response.status = 200
  /\ req.endpoint = "upload"
  /\ Len(results) = 2
  /\ results[1].success /\ results[2].success
  /\ req.files[1].name = <<"g", " ", ".gif">>
  /\ req.files[2].type = "video"
  /\ C19_Doc(1).title = <<"g", " ">>
  /\ C19_Doc(1).width = 2
  /\ C19_Doc(1).height = 5
  /\ C19_Doc(2).title = <<"v">>

\* the output stored for the success entry at position k
C21_Stored(k) == encoded[Path(PhotosDir, results[k].file)]

\* C21: for every image uploaded with success, the width of the stored
\* full-size output is at most the maximum width and at most the width of
\* the source
C21_FullSizeWidthCapped ==
  (Arrived /\ req.endpoint \in UploadEndpoints) =>
    \A k \in 1..Len(results) :
      (results[k].success /\ req.files[k].type = "image") =>
        /\ Path(PhotosDir, results[k].file) \in DOMAIN encoded
        /\ C21_Stored(k).width <= MaxWidth
        /\ C21_Stored(k).width <= req.files[k].width

\* the positions in the log of the calls made for file k of the batch
C22_CallsOf(k) == { j \in 1..Len(log) : log[j].op \in C7_FileCalls /\ log[j].n = k }

\* C22: upload.ts processes the files of a batch one after another: every
\* call made for a file comes before every call made for the next one; and
\* after every file that is not the last of the batch, failed or not, the
\* handler has waited before it takes the next file
C22_SequentialWithDelay ==
  (Arrived /\ req.endpoint = "upload") =>
    /\ \A k \in 1..Len(results) : \A a \in C22_CallsOf(k) :
         \A b \in C22_CallsOf(k + 1) : a < b
    /\ \A k \in 1..Len(results) :
         k < Len(req.files) => C22_CallsOf(k) \cap { j \in 1..Len(log) : log[j].op = "sleep" } # {}

\* the positions in the log of the calls of the build hook
C23_HookCalls == { j \in 1..Len(log) : log[j].op \in {"buildHook", "buildHookFailed"} }

\* C23: the build hook is called only in remote mode and only once the
\* request has moved the branch, and at most once per request
C23_HookOnlyAfterPublish ==
  C23_HookCalls # {} =>
    /\ ~env.isDev
    /\ ref # 1
    /\ Cardinality(C23_HookCalls) = 1

\* C24: in a remote-mode reorder no path is staged both for writing and for
\* deletion, so the tree of the single commit has no path with both a blob
\* entry and a deletion entry
C24_StagedSetsDisjoint ==
  (Arrived /\ ~env.isDev /\ req.endpoint = "reorder") =>
    SeqToSet(staged) \cap stagedDel = {}

\* the site path of the asset named by the document of success entry k
C25_AssetOf(k) ==
  IF req.files[k].type = "video" THEN docs[results[k].content].video
  ELSE docs[results[k].content].image

\* C25: for every file uploaded with success, whatever its extension, the
\* path of the stored asset differs from the path of its thumbnail, so the
\* thumbnail does not replace the asset
C25_AssetAndThumbnailDiffer ==
  (Arrived /\ req.endpoint \in UploadEndpoints) =>
    \A k \in 1..Len(results) :
      results[k].success =>
        /\ results[k].content \in DOMAIN docs
        /\ C25_AssetOf(k) # docs[results[k].content].thumbnail
        /\ req.files[k].type = "image" =>
             /\ Path(PhotosDir, results[k].file) \in DOMAIN encoded
             /\ encoded[Path(PhotosDir, results[k].file)].kind = "full"

\* the request has answered with success and had something to publish: an
\* upload with a success entry, a reorder with a changed name, a delete
C26_Succeeded ==
  /\ pc = "done"
  /\ response.status = 200
  /\ \/ req.endpoint \in UploadEndpoints /\ \E k \in 1..Len(results) : results[k].success
     \/ req.endpoint = "reorder" /\ staged # <<>>
     \/ req.endpoint \in DeleteEndpoints

\* C26: in remote mode a success response of an upload, of a reorder that
\* changes a name, or of a delete implies that the branch was moved to a
\* commit made by the request, with or without the repository credentials
C26_SuccessImpliesPublished ==
  (~env.isDev /\ C26_Succeeded) => (ref # 1 /\ Len(commits) > 1)

\* the files of the category directory under a temporary name
C27_TempFiles == { p \in fs : Len(p.file) > 0 /\ p.file[1] = "__temp_" }

\* C27: once a local-mode reorder has answered, with success or with the
\* error response, no file of the form __temp_<i>_<id> is left and the
\* content of every initial item is still held by some file
C27_NoTemporaryLeftBehind ==
  (env.isDev /\ req.endpoint = "reorder" /\ pc = "done") =>
    /\ C27_TempFiles = {}
    /\ \A o \in InitialTree : \E p \in DOMAIN data : data[p] = o

\* what the listing returns after the reorder, each id replaced by the id
\* the item had before the reorder
C28_Listed ==
  LET ids == Listing(fs, req.category)
  IN  [k \in 1..Len(ids) |-> data[Path(ContentDir(req.category), ids[k])].file]

\* the items of the category that the request does not list
C28_Others ==
  { p.file : p \in { q \in InitialTree : q.dir = ContentDir(req.category) } }
    \ SeqToSet(req.items)

\* C28: after a successful local-mode reorder of a list of distinct existing
\* items, the listing sorted by id returns the items of the list in the order
\* of the list, and after them every item of the category that is not listed
C28_ReorderThenListing ==
  (req.endpoint = "reorder" /\ env.isDev /\ pc = "done" /\ response.status = 200
     /\ C13_DistinctExisting) =>
    /\ Len(C28_Listed) = Len(req.items) + Cardinality(C28_Others)
    /\ SubSeq(C28_Listed, 1, Len(req.items)) = req.items
    /\ { C28_Listed[k] : k \in (Len(req.items) + 1)..Len(C28_Listed) } = C28_Others

\* the closure of the gallery that is shown
C29_Gallery == page.inst[page.owner]

RECURSIVE C29_Nexts(_, _, _)
\* the index after `times` next events from index c of n images
C29_Nexts(c, n, times) ==
  IF times = 0 THEN c ELSE C29_Nexts(nextIndex(c, n), n, times - 1)

\* C29: while the lightbox is shown, after any next, previous and popstate
\* events, its index is in 0..n-1, the counter shows the index plus 1 and
\* the current history entry carries the index and the photo parameter
\* index plus 1; next undoes previous, previous undoes next, and n next
\* events lead back to the same index
C29_IndexStaysInRange ==
  page.overlay = "shown" =>
    /\ C29_Gallery.currentIndex \in 0..(C29_Gallery.total - 1)
    /\ page.counter = C29_Gallery.currentIndex + 1
    /\ page.history[page.at] =
         Entry(C29_Gallery.currentIndex, C29_Gallery.currentIndex + 1)
    /\ \A c \in 0..(C29_Gallery.total - 1) :
         /\ prevIndex(nextIndex(c, C29_Gallery.total), C29_Gallery.total) = c
         /\ nextIndex(prevIndex(c, C29_Gallery.total), C29_Gallery.total) = c
         /\ C29_Nexts(c, C29_Gallery.total, C29_Gallery.total) = c

\* the gallery was closed and its overlay is gone
C30_Closed == page.inst # <<>> /\ page.overlay = "none"

\* C30: once the gallery is closed, no keydown and no popstate changes the
\* index of a gallery, pushes a history entry or rewrites the URL of one
C30_ClosedGalleryIsInert ==
  [][ (C30_Closed /\ Len(page'.inst) = Len(page.inst)) =>
        /\ page'.inst = page.inst
        /\ page'.history = page.history ]_vars

Next ==
  \/ Receive
  \/ SessionGate
  \/ UploadReadBody
  \/ ProcessFile
  \/ ProcessFileBatch
  \/ PubGetRef
  \/ PubGetCommit
  \/ PubCreateBlobs
  \/ PubCreateTree
  \/ PubCreateCommit
  \/ PubUpdateRef
  \/ ReorderReadBody
  \/ ReorderLocal
  \/ ReorderStage
  \/ DeleteReadBody
  \/ DeleteLocal
  \/ DeleteStage
  \/ DeleteEach
  \/ ContentList
  \/ Notify
  \/ Respond

Spec == Init /\ [][Next]_vars

\* remote mode with credentials, and a second request publishing
InitRace == Init /\ ~env.isDev /\ env.creds

NextRace ==
  \/ RaceReceive
  \/ SessionGate
  \/ UploadReadBody
  \/ ProcessFileBatch
  \/ ReorderReadBody
  \/ ReorderStage
  \/ DeleteReadBody
  \/ DeleteStage
  \/ PubGetRef
  \/ PubGetCommit
  \/ PubCreateBlobs
  \/ PubCreateTree
  \/ PubCreateCommit
  \/ PubUpdateRef
  \/ Notify
  \/ Respond
  \/ OtherGetRef
  \/ OtherCreateCommit
  \/ OtherUpdateRef

SpecRace == InitRace /\ [][NextRace]_vars

\* the lightbox in the browser, the server being idle
InitGallery == Init /\ env.isDev

NextGallery ==
  \/ OpenGallery
  \/ KeyDown
  \/ Click
  \/ PopState
  \/ FadeOutComplete

SpecGallery == InitGallery /\ [][NextGallery]_vars

====
